---- MODULE Spec2Model ----
(***************************************************************************)
(* Model of fetch.js, the MTG card tracker data refresher: httpGet with    *)
(* its retry budget, the deck and collection readers, the per-URL loop of  *)
(* main with its merge into cardsMap / ownersMap, the price pass and the   *)
(* final write of data/cards.json.                                         *)
(*                                                                         *)
(* The program is one chain of awaits.  Every action below is one event    *)
(* of the event loop (a response, a transport error, a timer) together     *)
(* with all the synchronous code that runs until the next await suspends.  *)
(*                                                                         *)
(* Strings the code transforms (card names, source URLs, price strings)    *)
(* are sequences of symbols, so that trim, toLowerCase, the URL regexes    *)
(* and parseFloat are computed.  An optional JSON value is a sequence of   *)
(* length 0 (absent / null / undefined) or 1; an absent string is "".      *)
(***************************************************************************)
EXTENDS Integers, Sequences, FiniteSets, TLC

\* ---------------------------------------------------------------- bounds
MaxSources == 2      \* config.sources has at most this many entries
MaxUrls    == 2      \* the sources list at most this many urls in total
MaxEntries == 2      \* upstream entries the readers turn into cards, in total
MaxPages   == 3      \* largest totalPages a collection page reports
MaxBudget  == 3      \* largest retry budget httpGet is called with on its own
MaxUrlLen  == 8      \* longest url, in symbols, parseMoxfieldUrl is called with on its own

\* ------------------------------------------------------- program constants
DefaultRetries == 2
Wait429        == 5000
Wait5xx        == 2000
PageDelay      == 300
UrlDelay       == 1000
PriceDelay     == 100

\* ---------------------------------------------------------------- strings
LowerChar(c) ==
  CASE c = "B" -> "b"
    [] c = "O" -> "o"
    [] OTHER   -> c

toLowerCase(s) == [i \in 1..Len(s) |-> LowerChar(s[i])]

RECURSIVE trimStart(_)
trimStart(s) ==
  IF s # <<>> /\ Head(s) = " " THEN trimStart(Tail(s)) ELSE s

RECURSIVE trimEnd(_)
trimEnd(s) ==
  IF s # <<>> /\ s[Len(s)] = " " THEN trimEnd(SubSeq(s, 1, Len(s) - 1)) ELSE s

trim(s) == trimEnd(trimStart(s))

includes(list, x) == \E i \in 1..Len(list) : list[i] = x

\* a || b on strings: "" is falsy
OrStr(a, b) == IF a # "" THEN a ELSE b

\* a || b on optional arrays: only an absent value is falsy, [] is truthy
OrOpt(a, b) == IF a # <<>> THEN a ELSE b

\* ---------------------------------------------------- source URL classifier
TokenSyms == {"decks", "collection", "d", "c", "x", "_"}

isToken(sym) == sym \in TokenSyms

\* the longest run of token symbols of url starting at position i
RECURSIVE tokenRun(_, _)
tokenRun(url, i) ==
  IF i <= Len(url) /\ isToken(url[i])
    THEN <<url[i]>> \o tokenRun(url, i + 1)
    ELSE <<>>

\* positions where /<word>/<token> matches
matchesAt(url, word) ==
  { i \in 1..Len(url) :
      /\ i + 3 <= Len(url)
      /\ url[i] = "/"
      /\ url[i + 1] = word
      /\ url[i + 2] = "/"
      /\ isToken(url[i + 3]) }

\* String.prototype.match without the g flag: the leftmost match, group 1
firstMatch(url, word) ==
  LET ms == matchesAt(url, word)
      i  == CHOOSE m \in ms : \A n \in ms : m <= n
  IN tokenRun(url, i + 3)

NoRef == [type |-> "none", id |-> <<>>]

\* mutant: the collection pattern is tried first
parseMoxfieldUrlCollectionFirst(url) ==
  IF matchesAt(url, "collection") # {}
    THEN [type |-> "collection", id |-> firstMatch(url, "collection")]
  ELSE IF matchesAt(url, "decks") # {}
    THEN [type |-> "deck", id |-> firstMatch(url, "decks")]
  ELSE NoRef

parseMoxfieldUrl(url) ==
  IF matchesAt(url, "decks") # {}
    THEN [type |-> "deck", id |-> firstMatch(url, "decks")]
  ELSE IF matchesAt(url, "collection") # {}
    THEN [type |-> "collection", id |-> firstMatch(url, "collection")]
  ELSE NoRef

\* ------------------------------------------------------------ configuration
Owners == {"A", "B"}

\* process.env[config.phoneSecretNames[owner]] || '' : the secret of A is set,
\* B has none
phoneOf(o) == IF o = "A" THEN "+54" ELSE ""

DeckUrl == <<"/", "decks", "/", "d">>
CollUrl == <<"/", "collection", "/", "c">>
BadUrl  == <<"/", "x">>
Urls    == {DeckUrl, CollUrl, BadUrl}

RECURSIVE SeqsUpTo(_, _)
SeqsUpTo(S, n) ==
  IF n = 0 THEN {<<>>}
  ELSE LET shorter == SeqsUpTo(S, n - 1)
       IN shorter \cup { Append(s, x) : s \in { t \in shorter : Len(t) = n - 1 }, x \in S }

\* ------------------------------------------------------ upstream documents
\* The printing detail object of an upstream entry (the nested `card`).
Detail(set, setName, cn, finishes, scryfall_id, scryfallId) ==
  [set |-> set, setName |-> setName, cn |-> cn, finishes |-> finishes,
   scryfall_id |-> scryfall_id, scryfallId |-> scryfallId]

NoDetail == Detail("", "", "", <<>>, "", "")

\* An upstream entry.  In a deck section `name` is the key of the entry and
\* `top` its own sibling fields; in a collection page `name` is card.name.
\* card = <<>> is an entry without the nested object.
Entry(name, quantity, card, top) ==
  [name |-> name, quantity |-> quantity, card |-> card, top |-> top]

Item1 == Entry(<<"B", "o">>, <<2>>,
               <<Detail("lea", "Alpha", "1", << <<"nonfoil", "foil">> >>, "s1", "")>>,
               NoDetail)
Item2 == Entry(<<"b", "o">>, <<>>,
               <<Detail("lea", "", "", << <<"foil">> >>, "", "s2")>>,
               NoDetail)
Item3 == Entry(<<"B", "o", " ">>, <<1>>,
               <<Detail("lea", "Alpha", "2", << <<"nonfoil">> >>, "", "")>>,
               NoDetail)
Item4 == Entry(<<"B", "o">>, <<0>>,
               <<Detail("", "", "", <<>>, "", "")>>,
               Detail("mh3", "Horizons", "7", << <<"foil">> >>, "s4", ""))
Item5 == Entry(<<"O">>, <<1>>, <<>>, NoDetail)

Items == {Item1, Item2, Item3, Item4, Item5}

\* the nested object of an entry, every field absent when there is none
nested(e) == IF e.card # <<>> THEN e.card[1] ELSE NoDetail

Sections == <<"mainboard", "sideboard", "commanders", "considering", "maybeboard">>

\* the entries of a JSON object have pairwise different keys
distinctKeys(es) == \A i, j \in 1..Len(es) : es[i].name = es[j].name => i = j

\* A deck document of at most n entries: a section is absent (<<>>) or holds
\* its entries in order.
DeckDocs(n) ==
  { [sec \in {Sections[k] : k \in 1..Len(Sections)} |->
       IF sec = "mainboard" /\ mb[1] # <<>> THEN <<mb[1]>>
       ELSE IF sec = "maybeboard" /\ mb[2] # <<>> THEN <<mb[2]>>
       ELSE <<>>] :
    mb \in { x \in SeqsUpTo(Items, n) \X SeqsUpTo(Items, 1) :
               /\ Len(x[1]) + Len(x[2]) <= n
               /\ distinctKeys(x[1]) } }

\* A collection page: totalPages (0: absent or zero) and data, an array
\* (<<items>>) or something that is not an array (<<>>).
PageDocs(n) ==
  { [totalPages |-> t, data |-> d] :
      t \in 0..MaxPages,
      d \in {<<>>} \cup { <<s>> : s \in SeqsUpTo(Items, n) } }

\* A price document: prices.usd_foil and prices.usd, "" when absent; the
\* strings are decimal digit sequences.
PriceDocs ==
  { [usd_foil |-> <<>>, usd |-> <<>>],
    [usd_foil |-> <<1, 2>>, usd |-> <<1>>] }

\* ------------------------------------------------------------------ readers
RawCard(name, qty, set, setName, cn, finishes, scryfallId) ==
  [name |-> name, qty |-> qty, set |-> set, setName |-> setName,
   collectorNumber |-> cn, finishes |-> finishes,
   isFoil |-> includes(finishes, "foil"), scryfallId |-> scryfallId]

\* x ?? 1
quantityOr1(q) == IF q # <<>> THEN q[1] ELSE 1

\* mutant: finishes is read from the nested object only
deckCardNestedOnly(e) ==
  LET c == nested(e)
      finishes == OrOpt(c.finishes, << <<>> >>)[1]
  IN RawCard(trim(e.name), quantityOr1(e.quantity),
             OrStr(c.set, "unknown"), OrStr(c.setName, ""), OrStr(c.cn, ""),
             finishes, OrStr(c.scryfall_id, OrStr(c.scryfallId, "")))

\* the object pushed by fetchDeck for one entry of a section
deckCard(e) ==
  LET c == nested(e)
      finishes == OrOpt(OrOpt(c.finishes, e.top.finishes), << <<>> >>)[1]
  IN RawCard(trim(e.name), quantityOr1(e.quantity),
             OrStr(c.set, "unknown"), OrStr(c.setName, ""), OrStr(c.cn, ""),
             finishes, OrStr(c.scryfall_id, OrStr(c.scryfallId, "")))

RECURSIVE sectionCards(_)
sectionCards(es) ==
  IF es = <<>> THEN <<>> ELSE <<deckCard(Head(es))>> \o sectionCards(Tail(es))

\* fetchDeck after its await: the cards of the five sections, in order
RECURSIVE deckCards(_, _)
deckCards(data, k) ==
  IF k > Len(Sections) THEN <<>>
  ELSE (IF data[Sections[k]] = <<>> THEN <<>> ELSE sectionCards(data[Sections[k]][1]))
       \o deckCards(data, k + 1)

\* the object pushed by fetchCollection for one item with a card name
collectionCard(e) ==
  LET c == nested(e)
      finishes == OrOpt(c.finishes, << <<>> >>)[1]
  IN RawCard(trim(e.name), quantityOr1(e.quantity),
             OrStr(c.set, "unknown"), OrStr(c.setName, ""), OrStr(c.cn, ""),
             finishes, OrStr(c.scryfall_id, OrStr(c.scryfallId, "")))

\* if (!card?.name) continue
hasName(e) == e.card # <<>> /\ e.name # <<>>

RECURSIVE pageCards(_)
pageCards(es) ==
  IF es = <<>> THEN <<>>
  ELSE (IF hasName(Head(es)) THEN <<collectionCard(Head(es))>> ELSE <<>>)
       \o pageCards(Tail(es))

\* the cards one page contributes: none when data is not an array
pageData(data) == IF data.data = <<>> THEN <<>> ELSE pageCards(data.data[1])

\* data.totalPages || 1
firstTotalPages(data) == IF data.totalPages # 0 THEN data.totalPages ELSE 1

\* mutant: every page overwrites totalPages
nextTotalPagesEveryPage(pg, tp, data) == firstTotalPages(data)

\* if (page === 1) totalPages = data.totalPages || 1
nextTotalPages(pg, tp, data) == IF pg = 1 THEN firstTotalPages(data) ELSE tp

\* --------------------------------------------------------------- aggregate
\* printings.push({ qty, set, setName, isFoil, collectorNumber, scryfallId, price: null })
newPrinting(card) ==
  [qty |-> card.qty, set |-> card.set, setName |-> card.setName,
   isFoil |-> card.isFoil, collectorNumber |-> card.collectorNumber,
   scryfallId |-> card.scryfallId, price |-> <<>>]

\* mutant: the printing is looked up by set alone
samePrintingSetOnly(p, card) == p.set = card.set

\* the predicate of printings.find
samePrinting(p, card) == p.set = card.set /\ p.isFoil = card.isFoil

\* mutant: the quantity is assigned instead of added
addQtyAssign(p, card) == [p EXCEPT !.qty = card.qty]

\* mutant: the existing printing also takes the ids of the later entry
addQtyTakesIds(p, card) ==
  [p EXCEPT !.qty = @ + card.qty,
            !.collectorNumber = card.collectorNumber,
            !.scryfallId = card.scryfallId]

\* existingPrinting.qty += card.qty
addQty(p, card) == [p EXCEPT !.qty = @ + card.qty]

\* index of the first element of seq satisfying Test, 0 when there is none
firstIndex(seq, Test(_)) ==
  IF \E i \in 1..Len(seq) : Test(seq[i])
    THEN CHOOSE i \in 1..Len(seq) : Test(seq[i]) /\ \A j \in 1..(i - 1) : ~Test(seq[j])
    ELSE 0

\* mutant: an entry that finds its key overwrites the display name
mergeCardRenames(cm, o, card) ==
  LET key == toLowerCase(card.name)
      IsKey(c) == c.key = key
      cm1 == IF firstIndex(cm, IsKey) = 0
               THEN Append(cm, [key |-> key, name |-> card.name, owners |-> <<>>])
               ELSE [cm EXCEPT ![firstIndex(cm, IsKey)].name = card.name]
      ci  == firstIndex(cm1, IsKey)
      IsOwner(e) == e.owner = o
      os1 == IF firstIndex(cm1[ci].owners, IsOwner) = 0
               THEN Append(cm1[ci].owners, [owner |-> o, printings |-> <<>>])
               ELSE cm1[ci].owners
      oi  == firstIndex(os1, IsOwner)
      ps  == os1[oi].printings
      Same(p) == samePrinting(p, card)
      pi  == firstIndex(ps, Same)
      ps1 == IF pi # 0 THEN [ps EXCEPT ![pi] = addQty(@, card)]
                       ELSE Append(ps, newPrinting(card))
  IN [cm1 EXCEPT ![ci].owners = [os1 EXCEPT ![oi].printings = ps1]]

\* one iteration of the merge loop of main.  cardsMap and the owners of a
\* card are JS objects: sequences in insertion order, looked up by key.
mergeCard(cm, o, card) ==
  LET key == toLowerCase(card.name)
      IsKey(c) == c.key = key
      cm1 == IF firstIndex(cm, IsKey) = 0
               THEN Append(cm, [key |-> key, name |-> card.name, owners |-> <<>>])
               ELSE cm
      ci  == firstIndex(cm1, IsKey)
      IsOwner(e) == e.owner = o
      os1 == IF firstIndex(cm1[ci].owners, IsOwner) = 0
               THEN Append(cm1[ci].owners, [owner |-> o, printings |-> <<>>])
               ELSE cm1[ci].owners
      oi  == firstIndex(os1, IsOwner)
      ps  == os1[oi].printings
      Same(p) == samePrinting(p, card)
      pi  == firstIndex(ps, Same)
      ps1 == IF pi # 0 THEN [ps EXCEPT ![pi] = addQty(@, card)]
                       ELSE Append(ps, newPrinting(card))
  IN [cm1 EXCEPT ![ci].owners = [os1 EXCEPT ![oi].printings = ps1]]

RECURSIVE mergeCards(_, _, _)
mergeCards(cm, o, cards) ==
  IF cards = <<>> THEN cm
  ELSE mergeCards(mergeCard(cm, o, Head(cards)), o, Tail(cards))

\* ownersMap is a JS object too: owner records in insertion order
hasOwner(om, o) == \E i \in 1..Len(om) : om[i].name = o

\* mutant: the record is written for every source, known owner or not
ensureOwnerResets(om, o, phone) ==
  IF hasOwner(om, o)
    THEN [i \in 1..Len(om) |->
            IF om[i].name = o THEN [name |-> o, phone |-> phone, cardCount |-> 0] ELSE om[i]]
  ELSE Append(om, [name |-> o, phone |-> phone, cardCount |-> 0])

\* if (!ownersMap[src.owner]) ownersMap[src.owner] = { name, phone, cardCount: 0 }
ensureOwner(om, o, phone) ==
  IF hasOwner(om, o) THEN om
  ELSE Append(om, [name |-> o, phone |-> phone, cardCount |-> 0])

\* mutant: cardCount grows by the quantities instead of the number of entries
RECURSIVE totalQty(_)
totalQty(cards) == IF cards = <<>> THEN 0 ELSE Head(cards).qty + totalQty(Tail(cards))

addCardCountQty(om, o, cards) ==
  [i \in 1..Len(om) |->
     IF om[i].name = o THEN [om[i] EXCEPT !.cardCount = @ + totalQty(cards)] ELSE om[i]]

\* ownersMap[src.owner].cardCount += cards.length
addCardCount(om, o, cards) ==
  [i \in 1..Len(om) |->
     IF om[i].name = o THEN [om[i] EXCEPT !.cardCount = @ + Len(cards)] ELSE om[i]]

\* the printings of cardsMap in the order the price pass visits them:
\* Object.entries(cardsMap), then Object.entries(owners), then the list
RECURSIVE positionsFrom(_, _, _, _)
positionsFrom(cm, ci, oi, pi) ==
  IF ci > Len(cm) THEN <<>>
  ELSE IF oi > Len(cm[ci].owners) THEN positionsFrom(cm, ci + 1, 1, 1)
  ELSE IF pi > Len(cm[ci].owners[oi].printings) THEN positionsFrom(cm, ci, oi + 1, 1)
  ELSE <<[ci |-> ci, oi |-> oi, pi |-> pi]>> \o positionsFrom(cm, ci, oi, pi + 1)

positions(cm) == positionsFrom(cm, 1, 1, 1)

printingAt(cm, pos) == cm[pos.ci].owners[pos.oi].printings[pos.pi]

\* mutant: the skip needs set and collectorNumber both missing
skipsPriceAllMissing(p) == p.scryfallId = "" /\ p.set = "" /\ p.collectorNumber = ""

\* ------------------------------------------------------------------- price
\* if (!scryfallId && (!set || !collectorNumber)) return null (no request)
skipsPrice(p) == p.scryfallId = "" /\ (p.set = "" \/ p.collectorNumber = "")

NoUrl == [api |-> "none", via |-> "none", id |-> <<>>, page |-> 0, set |-> "", cn |-> ""]

\* the URL fetchPrice asks for, fetched directly
priceUrl(p) ==
  IF p.scryfallId # ""
    THEN [NoUrl EXCEPT !.api = "scryfall-id", !.via = "direct", !.id = <<p.scryfallId>>]
    ELSE [NoUrl EXCEPT !.api = "scryfall-set-cn", !.via = "direct",
                       !.set = p.set, !.cn = p.collectorNumber]

\* the URL fetchDeck asks for, through the worker
deckUrl(id) == [NoUrl EXCEPT !.api = "decks-all", !.via = "worker", !.id = id]

\* the URL fetchCollection asks for, through the worker
collectionUrl(id, pageNumber) ==
  [NoUrl EXCEPT !.api = "collections-search", !.via = "worker", !.id = id, !.page = pageNumber]

\* data.prices?.usd_foil || data.prices?.usd || null
pickPrice(data) == OrOpt(data.usd_foil, data.usd)

\* parseFloat of a string of decimal digits
RECURSIVE parseFloat(_)
parseFloat(digits) ==
  IF digits = <<>> THEN 0
  ELSE 10 * parseFloat(SubSeq(digits, 1, Len(digits) - 1)) + digits[Len(digits)]

\* ------------------------------------------------------------------- state
VARIABLES
  pc,          \* where the chain of awaits is suspended
  caller,      \* who awaits the httpGet in progress: deck, coll, price, test
  url,         \* httpGet's url
  retries,     \* httpGet's retries
  inFlight,    \* requests issued and not yet answered
  timer,       \* milliseconds of the setTimeout pending, 0 when none
  srcCount,    \* entries of config.sources consumed by the outer loop
  urlCount,    \* urls of those entries consumed by the inner loop
  owner,       \* src.owner
  ownersMap,
  cardsMap,
  id, page, totalPages, allCards,   \* parameter and locals of fetchCollection
  pricePos,    \* index in positions(cardsMap) of the printing being priced
  price,       \* fetchPrice's price while it sleeps
  written,     \* writes of data/cards.json
  rawLog,      \* history: every raw card handed to the merge loop, with its owner
  reqLog,      \* history: the response httpGet retries on; all its responses when called on its own
  issued,      \* history: requests issued by the httpGet in progress
  budget,      \* history: retries the httpGet in progress was called with
  result,      \* history: how a httpGet called on its own ended
  collLog,     \* history: page requests and sleeps of the last fetchCollection
  logged,      \* the failure the last step wrote to the console, "" when none
  srcUrl,      \* the url parseMoxfieldUrl is called with on its own
  parsedRefs,  \* what parseMoxfieldUrl returned for it, and then for the url rebuilt
  deckEntry,   \* the entry of a deck section fetchDeck reads on its own
  deckOut      \* the card fetchDeck pushed for it

vars == <<pc, caller, url, retries, inFlight, timer, srcCount, urlCount, owner,
          ownersMap, cardsMap, id, page, totalPages, allCards, pricePos, price,
          written, rawLog, reqLog, issued, budget, result, collLog, logged,
          srcUrl, parsedRefs, deckEntry, deckOut>>

httpVars == <<caller, url, retries, budget, issued, reqLog>>
loopVars == <<srcCount, urlCount, owner>>
collVars == <<id, page, totalPages, allCards>>
aloneVars == <<srcUrl, parsedRefs, deckEntry, deckOut>>

NoColl == [requested |-> <<>>, answered |-> 0, sleeps |-> 0, named |-> 0,
           first |-> 0, returned |-> <<>>]

Init ==
  /\ pc = "start" /\ caller = "none" /\ url = NoUrl /\ retries = 0
  /\ inFlight = 0 /\ timer = 0
  /\ srcCount = 0 /\ urlCount = 0 /\ owner = ""
  /\ ownersMap = <<>> /\ cardsMap = <<>>
  /\ id = <<>> /\ page = 0 /\ totalPages = 0 /\ allCards = <<>>
  /\ pricePos = 0 /\ price = <<>> /\ written = 0
  /\ rawLog = <<>> /\ reqLog = <<>> /\ issued = 0
  /\ budget = 0 /\ result = <<>> /\ collLog = NoColl /\ logged = ""
  /\ srcUrl = <<>> /\ parsedRefs = <<>>
  /\ deckEntry = <<>> /\ deckOut = <<>>

\* ----------------------------------------------------------------- httpGet
Statuses == {200, 404, 429, 503}

\* mutant: the last retry of the budget is never spent
httpGetOutcomeOffByOne(status, retriesLeft) ==
  IF status = 429 \/ status >= 500
    THEN (IF retriesLeft > 1 THEN "retry" ELSE "exhausted")
  ELSE IF status # 200 THEN "status"
  ELSE "body"

\* mutant: every status other than 200 is retried while the budget lasts
httpGetOutcomeRetryAny(status, retriesLeft) ==
  IF status # 200
    THEN (IF retriesLeft > 0 THEN "retry"
          ELSE IF status = 429 \/ status >= 500 THEN "exhausted" ELSE "status")
  ELSE "body"

\* what the response callback of httpGet does with a status
httpGetOutcome(status, retriesLeft) ==
  IF status = 429 \/ status >= 500
    THEN (IF retriesLeft > 0 THEN "retry" ELSE "exhausted")
  ELSE IF status # 200 THEN "status"
  ELSE "body"

\* mutant: the two waits are swapped
retryWaitSwapped(status) == IF status = 429 THEN Wait5xx ELSE Wait429

\* const wait = res.statusCode === 429 ? 5000 : 2000
retryWait(status) == IF status = 429 THEN Wait429 ELSE Wait5xx

\* protocol.get(url, ...): one more request on the wire
request(n) == n + 1

\* httpGet(u, n) called by who: the first request goes out
httpGet(u, n, who) ==
  /\ url' = u
  /\ retries' = n
  /\ budget' = n
  /\ caller' = who
  /\ inFlight' = request(inFlight)
  /\ issued' = 1
  /\ reqLog' = <<>>
  /\ timer' = 0
  /\ pc' = "http"

\* the promise of httpGet has settled: its frame is gone
httpGetOver ==
  /\ url' = NoUrl
  /\ retries' = 0
  /\ budget' = 0
  /\ caller' = "none"
  /\ issued' = 0
  /\ reqLog' = <<>>

\* fetchViaCF(targetUrl): httpGet with the default budget
fetchViaCF(u, who) == httpGet(u, DefaultRetries, who)

\* mutant: the per-URL loop has no catch, a failed fetch ends main
catchOfNoUrlCatch(who) ==
  CASE who = "deck"  -> "fatal"
    [] who = "coll"  -> "fatal"
    [] who = "price" -> "price"
    [] OTHER         -> "done"

\* mutant: fetchPrice has no catch, a failed lookup ends main
catchOfNoPriceCatch(who) ==
  CASE who = "deck"  -> "url"
    [] who = "coll"  -> "url"
    [] who = "price" -> "fatal"
    [] OTHER         -> "done"

\* mutant: fetchCollection catches per page and goes on with the next page
catchOfPerPage(who) ==
  CASE who = "deck"  -> "url"
    [] who = "coll"  -> "pageWait"
    [] who = "price" -> "price"
    [] OTHER         -> "done"

\* mutant: neither the per-URL loop nor fetchPrice catches
catchOfNothing(who) ==
  CASE who = "deck"  -> "fatal"
    [] who = "coll"  -> "fatal"
    [] who = "price" -> "fatal"
    [] OTHER         -> "done"

\* where the chain goes on when the awaited fetch throws: the catch of the
\* per-URL loop continues with the next url, the catch of fetchPrice returns
\* null to the price loop
catchOf(who) ==
  CASE who = "deck"  -> "url"
    [] who = "coll"  -> "url"
    [] who = "price" -> "price"
    [] OTHER         -> "done"

\* what that catch writes to the console
catchLog(who) ==
  CASE who = "deck"  -> "fetch"
    [] who = "coll"  -> "fetch"
    [] who = "price" -> "price"
    [] OTHER         -> ""

\* payloads of a httpGet called on its own
TestDocs == {"p1", "p2"}
TestUrl  == [NoUrl EXCEPT !.api = "test", !.via = "direct"]

\* the JSON documents the requested URL can answer with
Docs(who) ==
  CASE who = "deck"  -> DeckDocs(MaxEntries - Len(rawLog))
    [] who = "coll"  -> PageDocs(MaxEntries - Len(rawLog) - Len(allCards))
    [] who = "price" -> PriceDocs
    [] OTHER         -> TestDocs

\* the body of a response: <<>> is a body JSON.parse throws on.  The body of
\* a response that is not a 200 is discarded unread.
Bodies(who, status) ==
  IF status = 200 THEN {<<>>} \cup { <<d>> : d \in Docs(who) } ELSE {<<>>}

\* --------------------------------------------- main after an awaited fetch
tagged(o, cards) == [i \in 1..Len(cards) |-> [owner |-> o, card |-> cards[i]]]

\* cards arrived: cardCount, the merge loop, then sleep(1000)
urlFetched(cards) ==
  /\ ownersMap' = addCardCount(ownersMap, owner, cards)
  /\ cardsMap' = mergeCards(cardsMap, owner, cards)
  /\ rawLog' = rawLog \o tagged(owner, cards)
  /\ pc' = "urlWait"
  /\ timer' = UrlDelay
  /\ logged' = ""

\* fetchDeck after its await
deckResolved(data) ==
  /\ urlFetched(deckCards(data, 1))
  /\ UNCHANGED <<loopVars, collVars, pricePos, price, written, collLog, result>>

\* number of items of a page that carry a card name
RECURSIVE namedItems(_)
namedItems(es) ==
  IF es = <<>> THEN 0
  ELSE (IF Head(es).card # <<>> /\ Head(es).name # <<>> THEN 1 ELSE 0) + namedItems(Tail(es))

\* fetchCollection after the await of one page
pageResolved(data) ==
  LET tp   == nextTotalPages(page, totalPages, data)
      all  == allCards \o pageData(data)
      next == page + 1
      log  == [collLog EXCEPT
                 !.answered = @ + 1,
                 !.named = @ + (IF data.data = <<>> THEN 0 ELSE namedItems(data.data[1])),
                 !.first = IF page = 1 THEN data.totalPages ELSE @]
  IN /\ IF next <= tp
          THEN /\ pc' = "pageWait"
               /\ timer' = PageDelay
               /\ totalPages' = tp
               /\ allCards' = all
               /\ page' = next
               /\ collLog' = [log EXCEPT !.sleeps = @ + 1]
               /\ logged' = ""
               /\ UNCHANGED <<id, ownersMap, cardsMap, rawLog>>
          ELSE /\ urlFetched(all)
               /\ id' = <<>> /\ page' = 0 /\ totalPages' = 0 /\ allCards' = <<>>
               /\ collLog' = [log EXCEPT !.returned = <<Len(all)>>]
     /\ UNCHANGED <<loopVars, pricePos, price, written, result>>

\* fetchPrice after its await: pick the price, then sleep(100)
priceResolved(data) ==
  /\ price' = pickPrice(data)
  /\ pc' = "priceWait"
  /\ timer' = PriceDelay
  /\ logged' = ""
  /\ UNCHANGED <<loopVars, collVars, ownersMap, cardsMap, pricePos, written,
                 rawLog, collLog, result>>

\* the promise of httpGet resolves with the parsed body
resolved(data, log) ==
  CASE caller = "deck"  -> deckResolved(data)
    [] caller = "coll"  -> pageResolved(data)
    [] caller = "price" -> priceResolved(data)
    [] OTHER ->
         /\ pc' = "done"
         /\ timer' = 0
         /\ logged' = ""
         /\ result' = <<[kind |-> "ok", status |-> 200, data |-> <<data>>,
                         budget |-> budget, responses |-> log, issued |-> issued]>>
         /\ UNCHANGED <<loopVars, collVars, ownersMap, cardsMap, pricePos, price,
                        written, rawLog, collLog>>

\* the promise of httpGet rejects; the catch of the awaiting code runs
rejected(kind, status, log) ==
  /\ pc' = catchOf(caller)
  /\ timer' = 0
  /\ result' = IF caller = "test"
                 THEN <<[kind |-> kind, status |-> status, data |-> <<>>,
                         budget |-> budget, responses |-> log, issued |-> issued]>>
                 ELSE result
  /\ pricePos' = IF caller = "price" THEN pricePos + 1 ELSE pricePos
  /\ logged' = catchLog(caller)
  /\ UNCHANGED collLog
  /\ id' = <<>> /\ page' = 0 /\ totalPages' = 0 /\ allCards' = <<>>
  /\ UNCHANGED <<loopVars, ownersMap, cardsMap, price, written, rawLog>>

\* ----------------------------------------------------------------- actions
\* main: read and parse config.json; a throw here is fatal
ReadConfig ==
  /\ UNCHANGED aloneVars
  /\ logged' = ""
  /\ pc = "start"
  /\ \E ok \in BOOLEAN : pc' = IF ok THEN "src" ELSE "fatal"
  /\ UNCHANGED <<httpVars, loopVars, collVars, inFlight, timer, ownersMap, cardsMap,
                 pricePos, price, written, rawLog, result, collLog>>

\* for (const src of config.sources): the next source and its owner record.
\* The configuration is read as the loops consume it.
NextSource ==
  /\ UNCHANGED aloneVars
  /\ logged' = ""
  /\ pc = "src"
  /\ srcCount < MaxSources
  /\ \E o \in Owners :
       /\ srcCount' = srcCount + 1
       /\ owner' = o
       /\ ownersMap' = ensureOwner(ownersMap, o, phoneOf(o))
  /\ pc' = "url"
  /\ UNCHANGED <<urlCount, httpVars, collVars, inFlight, timer, cardsMap, pricePos, price,
                 written, rawLog, result, collLog>>

\* config.sources is exhausted: the price pass begins
SourcesDone ==
  /\ UNCHANGED aloneVars
  /\ logged' = ""
  /\ pc = "src"
  /\ pc' = "price"
  /\ pricePos' = 1
  /\ srcCount' = 0 /\ urlCount' = 0 /\ owner' = ""
  /\ UNCHANGED <<httpVars, collVars, inFlight, timer, ownersMap, cardsMap, price,
                 written, rawLog, result, collLog>>

\* for (const url of urls): classify, then start fetchDeck or fetchCollection
NextUrl ==
  /\ UNCHANGED aloneVars
  /\ pc = "url"
  /\ urlCount < MaxUrls
  /\ urlCount' = urlCount + 1
  /\ \E u \in Urls :
     LET parsed == parseMoxfieldUrl(u)
     IN CASE parsed.type = "none" ->
               /\ logged' = "parse"
               /\ collLog' = NoColl
               /\ UNCHANGED <<pc, httpVars, collVars, inFlight, timer>>
          [] parsed.type = "deck" ->
               /\ logged' = ""
               /\ collLog' = NoColl
               /\ fetchViaCF(deckUrl(parsed.id), "deck")
               /\ UNCHANGED collVars
          [] OTHER ->
               /\ logged' = ""
               /\ id' = parsed.id
               /\ allCards' = <<>>
               /\ page' = 1
               /\ totalPages' = 1
               /\ collLog' = [NoColl EXCEPT !.requested = <<1>>]
               /\ fetchViaCF(collectionUrl(parsed.id, 1), "coll")
  /\ UNCHANGED <<srcCount, owner, ownersMap, cardsMap, pricePos, price,
                 written, rawLog, result>>

\* the urls of src are exhausted
UrlsDone ==
  /\ UNCHANGED aloneVars
  /\ logged' = ""
  /\ pc = "url"
  /\ pc' = "src"
  /\ collLog' = NoColl
  /\ UNCHANGED <<httpVars, loopVars, collVars, inFlight, timer, ownersMap, cardsMap,
                 pricePos, price, written, rawLog, result>>

\* the response callback of httpGet, and whatever the settled promise resumes
HttpResponse ==
  /\ UNCHANGED aloneVars
  /\ pc = "http"
  /\ \E status \in Statuses : \E body \in Bodies(caller, status) :
       LET outcome == httpGetOutcome(status, retries)
           log     == Append(reqLog, [status |-> status, body |-> body])
       IN /\ inFlight' = inFlight - 1
          /\ CASE outcome = "retry" ->
                    /\ pc' = "retryWait"
                    /\ timer' = retryWait(status)
                    /\ reqLog' = IF caller = "test" THEN log
                                  ELSE <<[status |-> status, body |-> body]>>
                    /\ logged' = ""
                    /\ UNCHANGED <<caller, url, retries, budget, issued, loopVars,
                                   collVars, ownersMap, cardsMap, pricePos, price,
                                   written, rawLog, result, collLog>>
               [] outcome = "exhausted" ->
                    httpGetOver /\ rejected("RetryExhausted", status, log)
               [] outcome = "status" ->
                    httpGetOver /\ rejected("HttpStatus", status, log)
               [] outcome = "body" /\ body = <<>> ->
                    httpGetOver /\ rejected("BadJson", status, log)
               [] OTHER ->
                    httpGetOver /\ resolved(body[1], log)

\* .on('error', reject): the request fails at transport level
HttpError ==
  /\ UNCHANGED aloneVars
  /\ pc = "http"
  /\ inFlight' = inFlight - 1
  /\ httpGetOver
  /\ rejected("Transport", 0, Append(reqLog, [status |-> 0, body |-> <<>>]))

\* setTimeout(() => httpGet(url, retries - 1)...) fires
RetryTimer ==
  /\ UNCHANGED aloneVars
  /\ logged' = ""
  /\ pc = "retryWait"
  /\ timer' = 0
  /\ retries' = retries - 1
  /\ inFlight' = request(inFlight)
  /\ issued' = issued + 1
  /\ pc' = "http"
  /\ reqLog' = IF caller = "test" THEN reqLog ELSE <<>>
  /\ UNCHANGED <<caller, url, budget, loopVars, collVars, ownersMap,
                 cardsMap, pricePos, price, written, rawLog, result,
                 collLog>>

\* sleep(300) is over: fetchCollection asks for the next page
PageTimer ==
  /\ UNCHANGED aloneVars
  /\ logged' = ""
  /\ pc = "pageWait"
  /\ fetchViaCF(collectionUrl(id, page), "coll")
  /\ collLog' = [collLog EXCEPT !.requested = Append(@, page)]
  /\ UNCHANGED <<loopVars, collVars, ownersMap, cardsMap, pricePos, price, written,
                 rawLog, result>>

\* sleep(1000) is over: the per-URL loop goes on
UrlTimer ==
  /\ UNCHANGED aloneVars
  /\ logged' = ""
  /\ pc = "urlWait"
  /\ timer' = 0
  /\ pc' = "url"
  /\ collLog' = NoColl
  /\ UNCHANGED <<httpVars, loopVars, collVars, inFlight, ownersMap, cardsMap,
                 pricePos, price, written, rawLog, result>>

\* mutant: the price loop does not await fetchPrice
priceLoopNoAwait == pc = "price" \/ (pc = "http" /\ caller = "price")

\* the price loop is ready for its next printing: the previous fetchPrice
\* has been awaited
priceLoopReady == pc = "price"

\* one iteration of the price loop up to the await inside fetchPrice
PriceNext ==
  /\ UNCHANGED aloneVars
  /\ logged' = ""
  /\ priceLoopReady
  /\ pricePos <= Len(positions(cardsMap))
  /\ LET p == printingAt(cardsMap, positions(cardsMap)[pricePos])
     IN IF skipsPrice(p)
          THEN /\ pricePos' = pricePos + 1
               /\ UNCHANGED <<pc, httpVars, inFlight, timer>>
          ELSE /\ httpGet(priceUrl(p), DefaultRetries, "price")
               /\ UNCHANGED pricePos
  /\ UNCHANGED <<loopVars, collVars, ownersMap, cardsMap, price, written, rawLog,
                 collLog, result>>

\* printing.price = parseFloat(price) when fetchPrice returned a price
setPrice(cm, pos, pr) ==
  IF pr # <<>>
    THEN [cm EXCEPT ![pos.ci].owners[pos.oi].printings[pos.pi].price = <<parseFloat(pr)>>]
    ELSE cm

\* sleep(100) is over: fetchPrice returns, the loop stores the price
PriceTimer ==
  /\ UNCHANGED aloneVars
  /\ logged' = ""
  /\ pc = "priceWait"
  /\ timer' = 0
  /\ cardsMap' = setPrice(cardsMap, positions(cardsMap)[pricePos], price)
  /\ price' = <<>>
  /\ pricePos' = pricePos + 1
  /\ pc' = "price"
  /\ UNCHANGED <<httpVars, loopVars, collVars, inFlight, ownersMap, written, rawLog,
                 collLog, result>>

\* mutant: the loop ends one printing early
priceLoopOverBeforeLast == pricePos >= Len(positions(cardsMap))

\* the three nested loops of the price pass have visited every printing
priceLoopOver == pricePos > Len(positions(cardsMap))

\* the price loop is over: data/cards.json is written
WriteOutput ==
  /\ UNCHANGED aloneVars
  /\ logged' = ""
  /\ pc = "price"
  /\ priceLoopOver
  /\ written' = written + 1
  /\ pc' = "done"
  /\ UNCHANGED <<httpVars, loopVars, collVars, inFlight, timer, ownersMap, cardsMap,
                 pricePos, price, rawLog, collLog, result>>

Next ==
  \/ ReadConfig \/ NextSource \/ SourcesDone \/ NextUrl \/ UrlsDone
  \/ HttpResponse \/ HttpError \/ RetryTimer \/ PageTimer \/ UrlTimer
  \/ PriceNext \/ PriceTimer \/ WriteOutput

Spec == Init /\ [][Next]_vars

\* the event loop of Node runs every callback that is due: a response or an
\* error arrives for every request, every timer fires, and code that is not
\* awaiting runs on
FairSpec == Spec /\ WF_vars(Next)

\* httpGet called on its own with any retry budget
InitHttp ==
  /\ pc = "call" /\ caller = "none" /\ url = NoUrl /\ retries = 0
  /\ inFlight = 0 /\ timer = 0
  /\ srcCount = 0 /\ urlCount = 0 /\ owner = ""
  /\ ownersMap = <<>> /\ cardsMap = <<>>
  /\ id = <<>> /\ page = 0 /\ totalPages = 0 /\ allCards = <<>>
  /\ pricePos = 0 /\ price = <<>> /\ written = 0
  /\ rawLog = <<>> /\ reqLog = <<>> /\ issued = 0
  /\ budget = 0 /\ result = <<>> /\ collLog = NoColl /\ logged = ""
  /\ srcUrl = <<>> /\ parsedRefs = <<>>
  /\ deckEntry = <<>> /\ deckOut = <<>>

CallHttpGet ==
  /\ UNCHANGED aloneVars
  /\ logged' = ""
  /\ pc = "call"
  /\ \E n \in 0..MaxBudget : httpGet(TestUrl, n, "test")
  /\ UNCHANGED <<loopVars, collVars, ownersMap, cardsMap, pricePos, price, written,
                 rawLog, result, collLog>>

NextHttp == CallHttpGet \/ HttpResponse \/ HttpError \/ RetryTimer

SpecHttp == InitHttp /\ [][NextHttp]_vars

\* parseMoxfieldUrl called on its own, then on the url rebuilt from what it
\* returned
UrlSyms == {"/", "decks", "collection", "d"}

\* the url of a reference: /decks/<id> or /collection/<id>
classifyBack(ref) ==
  <<"/", IF ref.type = "deck" THEN "decks" ELSE "collection", "/">> \o ref.id

InitParse ==
  /\ pc = "classify" /\ caller = "none" /\ url = NoUrl /\ retries = 0
  /\ inFlight = 0 /\ timer = 0
  /\ srcCount = 0 /\ urlCount = 0 /\ owner = ""
  /\ ownersMap = <<>> /\ cardsMap = <<>>
  /\ id = <<>> /\ page = 0 /\ totalPages = 0 /\ allCards = <<>>
  /\ pricePos = 0 /\ price = <<>> /\ written = 0
  /\ rawLog = <<>> /\ reqLog = <<>> /\ issued = 0
  /\ budget = 0 /\ result = <<>> /\ collLog = NoColl /\ logged = ""
  /\ srcUrl \in UNION { [1..n -> UrlSyms] : n \in 0..MaxUrlLen } /\ parsedRefs = <<>>
  /\ deckEntry = <<>> /\ deckOut = <<>>

notParsing == <<pc, httpVars, loopVars, collVars, inFlight, timer, ownersMap, cardsMap,
                pricePos, price, written, rawLog, result, collLog, logged>>

Classify ==
  /\ parsedRefs = <<>>
  /\ parsedRefs' = <<parseMoxfieldUrl(srcUrl)>>
  /\ UNCHANGED <<srcUrl, deckEntry, deckOut, notParsing>>

ClassifyBack ==
  /\ Len(parsedRefs) = 1
  /\ parsedRefs[1] # NoRef
  /\ parsedRefs' = Append(parsedRefs, parseMoxfieldUrl(classifyBack(parsedRefs[1])))
  /\ UNCHANGED <<srcUrl, deckEntry, deckOut, notParsing>>

NextParse == Classify \/ ClassifyBack

SpecParse == InitParse /\ [][NextParse]_vars

\* fetchDeck reading one entry of a section on its own.  Every field of the
\* nested object and of the entry itself is present or absent; finishes may
\* also be an empty array.
Finishes == {<<>>, << <<>> >>, << <<"foil">> >>, << <<"nonfoil">> >>, << <<"nonfoil", "foil">> >>}

NestedDetails ==
  { Detail(st, sn, cn, fs, sid1, sid2) :
      st \in {"", "lea"}, sn \in {"", "Alpha"}, cn \in {"", "1"}, fs \in Finishes,
      sid1 \in {"", "s1"}, sid2 \in {"", "s2"} }

TopDetails ==
  { Detail(st, sn, cn, fs, sid1, "") :
      st \in {"", "mh3"}, sn \in {"", "Horizons"}, cn \in {"", "7"}, fs \in Finishes,
      sid1 \in {"", "s4"} }

DeckEntries ==
  { Entry(<<"B", "o">>, q, c, t) :
      q \in {<<>>, <<2>>},
      c \in {<<>>} \cup { <<d>> : d \in NestedDetails },
      t \in TopDetails }

InitDeck ==
  /\ pc = "entry" /\ caller = "none" /\ url = NoUrl /\ retries = 0
  /\ inFlight = 0 /\ timer = 0
  /\ srcCount = 0 /\ urlCount = 0 /\ owner = ""
  /\ ownersMap = <<>> /\ cardsMap = <<>>
  /\ id = <<>> /\ page = 0 /\ totalPages = 0 /\ allCards = <<>>
  /\ pricePos = 0 /\ price = <<>> /\ written = 0
  /\ rawLog = <<>> /\ reqLog = <<>> /\ issued = 0
  /\ budget = 0 /\ result = <<>> /\ collLog = NoColl /\ logged = ""
  /\ srcUrl = <<>> /\ parsedRefs = <<>>
  /\ deckEntry \in { <<e>> : e \in DeckEntries } /\ deckOut = <<>>

ReadDeckEntry ==
  /\ deckEntry # <<>>
  /\ deckOut = <<>>
  /\ deckOut' = <<deckCard(deckEntry[1])>>
  /\ UNCHANGED <<srcUrl, parsedRefs, deckEntry, notParsing>>

NextDeck == ReadDeckEntry

SpecDeck == InitDeck /\ [][NextDeck]_vars

\* ================================================================== claims
\* the printings of cardsMap, by their place in the visiting order
Places == 1..Len(positions(cardsMap))
placeKey(k)      == cardsMap[positions(cardsMap)[k].ci].key
placeOwner(k)    == cardsMap[positions(cardsMap)[k].ci].owners[positions(cardsMap)[k].oi].owner
placePrinting(k) == printingAt(cardsMap, positions(cardsMap)[k])

\* two raw entries of one owner under one lowercased name
sameOwnerName(a, b) ==
  a.owner = b.owner /\ toLowerCase(a.card.name) = toLowerCase(b.card.name)

\* ... that are moreover the same printing
sameGroup(a, b) ==
  sameOwnerName(a, b) /\ a.card.set = b.card.set /\ a.card.isFoil = b.card.isFoil

\* the printing at place k is the one the raw entry e belongs to
placeOf(k, e) ==
  /\ placeKey(k) = toLowerCase(e.card.name)
  /\ placeOwner(k) = e.owner
  /\ placePrinting(k).set = e.card.set
  /\ placePrinting(k).isFoil = e.card.isFoil

RECURSIVE sumSeq(_)
sumSeq(ns) == IF ns = <<>> THEN 0 ELSE Head(ns) + sumSeq(Tail(ns))

\* the sum of the qty of the raw entries of the group of e
groupQty(e) ==
  sumSeq([i \in 1..Len(rawLog) |->
            IF sameGroup(rawLog[i], e) THEN rawLog[i].card.qty ELSE 0])

\* C1: at every point of the aggregation, every raw entry merged so far has
\* exactly one Printing for its owner, lowercased name, set and isFoil, the qty
\* of that Printing is the sum of the qty of all raw entries of that group, and
\* there is no Printing that no raw entry accounts for.
C1_OnePrintingPerGroup ==
  /\ \A i \in 1..Len(rawLog) :
       /\ Cardinality({ k \in Places : placeOf(k, rawLog[i]) }) = 1
       /\ \A k \in Places :
            placeOf(k, rawLog[i]) => placePrinting(k).qty = groupQty(rawLog[i])
  /\ \A k \in Places : \E i \in 1..Len(rawLog) : placeOf(k, rawLog[i])

\* two raw entries of one group, each with a positive qty, have been merged
C1_Witness ==
  \E i, j \in 1..Len(rawLog) :
    /\ i < j
    /\ sameGroup(rawLog[i], rawLog[j])
    /\ rawLog[i].card.qty > 0 /\ rawLog[j].card.qty > 0
    /\ \E k \in Places :
         /\ placeOf(k, rawLog[i])
         /\ placePrinting(k).qty = rawLog[i].card.qty + rawLog[j].card.qty

\* the qty of all printings of the list of owner o under key
listQty(key, o) ==
  sumSeq([k \in 1..Len(positions(cardsMap)) |->
            IF placeKey(k) = key /\ placeOwner(k) = o THEN placePrinting(k).qty ELSE 0])

\* the qty of all raw entries of owner o under key
ownerNameQty(key, o) ==
  sumSeq([i \in 1..Len(rawLog) |->
            IF rawLog[i].owner = o /\ toLowerCase(rawLog[i].card.name) = key
              THEN rawLog[i].card.qty ELSE 0])

\* C2: two raw entries of one owner and one lowercased name that differ in
\* set or in isFoil sit in two different Printings of that owner's list, each
\* with the qty of its own group; and the list of an owner under a name holds
\* the quantities of that owner's entries only.
C2_NeverMerged ==
  /\ \A i, j \in 1..Len(rawLog) :
       ( /\ sameOwnerName(rawLog[i], rawLog[j])
         /\ \/ rawLog[i].card.set # rawLog[j].card.set
            \/ rawLog[i].card.isFoil # rawLog[j].card.isFoil )
       => \E k1, k2 \in Places :
            /\ k1 # k2
            /\ placeOf(k1, rawLog[i])
            /\ placeOf(k2, rawLog[j])
            /\ placePrinting(k1).qty = groupQty(rawLog[i])
            /\ placePrinting(k2).qty = groupQty(rawLog[j])
  /\ \A k \in Places :
       listQty(placeKey(k), placeOwner(k)) = ownerNameQty(placeKey(k), placeOwner(k))

\* one owner holds a foil and a non-foil printing of one set under one name
C2_Witness ==
  \E i, j \in 1..Len(rawLog) :
    /\ sameOwnerName(rawLog[i], rawLog[j])
    /\ rawLog[i].card.set = rawLog[j].card.set
    /\ rawLog[i].card.isFoil /\ ~rawLog[j].card.isFoil
    /\ \E k1, k2 \in Places :
         k1 # k2 /\ placeOf(k1, rawLog[i]) /\ placeOf(k2, rawLog[j])

\* a status httpGet retries on
Retryable(status) == status = 429 \/ status >= 500

\* C3: a httpGet called with retry budget n never issues more than n + 1
\* requests; when it has ended, if all responses but the last were retryable
\* and the last was a 200 with valid JSON it returned that payload (and at
\* most n responses came before it), and if all its responses were retryable
\* there were exactly n + 1 of them, one per request, and it failed with the
\* retries-exhausted error carrying the last status.
C3_RetryAccounting ==
  /\ issued <= budget + 1
  /\ result # <<>> =>
       LET r    == result[1]
           rs   == r.responses
           n    == r.budget
           last == rs[Len(rs)]
       IN /\ ( /\ \A i \in 1..(Len(rs) - 1) : Retryable(rs[i].status)
               /\ last.status = 200
               /\ last.body # <<>> )
             => /\ r.kind = "ok"
                /\ r.data = last.body
                /\ Len(rs) - 1 <= n
          /\ (\A i \in 1..Len(rs) : Retryable(rs[i].status))
             => /\ r.kind = "RetryExhausted"
                /\ r.status = last.status
                /\ Len(rs) = n + 1
                /\ r.issued = n + 1

\* [503, 503, 200] with budget 2 has returned the payload
C3_Witness ==
  /\ result # <<>>
  /\ result[1].budget = 2
  /\ [i \in 1..Len(result[1].responses) |-> result[1].responses[i].status] = <<503, 503, 200>>
  /\ result[1].kind = "ok"
  /\ result[1].data = <<"p1">>

\* the aggregate and the place of the loops of main
aggregate == <<ownersMap, cardsMap, rawLog>>

\* no fetch in progress, no frame of a reader left
atLoopTop ==
  /\ caller = "none" /\ url = NoUrl /\ retries = 0 /\ inFlight = 0 /\ timer = 0
  /\ id = <<>> /\ page = 0 /\ totalPages = 0 /\ allCards = <<>>

\* a URL of the per-URL loop is being classified or fetched
inUrlLoop ==
  \/ pc \in {"url", "pageWait"}
  \/ pc \in {"http", "retryWait"} /\ caller \in {"deck", "coll"}

\* C4: the step that skips a URL (it could not be classified, or its fetch
\* failed) leaves the owners, the cards and the position of the outer loop as
\* they were and puts main back at the top of the per-URL loop with nothing of
\* the skipped URL left; no step of the per-URL loop other than the return of
\* a successful fetch changes the aggregate, and none ends the run: the next
\* URL or source is processed from the state the skipped URL found.
C4_SkipWithoutAbort ==
  [][ /\ logged' \in {"parse", "fetch"}
         => /\ pc' = "url"
            /\ aggregate' = aggregate
            /\ srcCount' = srcCount /\ owner' = owner
            /\ pricePos' = pricePos /\ price' = price /\ written' = written
            /\ atLoopTop'
      /\ (inUrlLoop /\ pc' # "urlWait")
         => /\ aggregate' = aggregate
            /\ pc' \in {"url", "src", "http", "retryWait", "pageWait"}
      /\ pc = "url" => atLoopTop
    ]_vars

\* the fetch of a URL has just failed; more urls and sources may follow
C4_Witness ==
  /\ logged = "fetch"
  /\ pc = "url"
  /\ urlCount < MaxUrls
  /\ srcCount < MaxSources

\* C5: the cardCount of every owner is the number of raw entries the readers
\* returned for that owner's fetched URLs, whatever their quantities and
\* however many of them were merged into one Printing.
C5_CardCount ==
  /\ \A i \in 1..Len(ownersMap) :
       ownersMap[i].cardCount =
         Cardinality({ j \in 1..Len(rawLog) : rawLog[j].owner = ownersMap[i].name })
  /\ \A j \in 1..Len(rawLog) : hasOwner(ownersMap, rawLog[j].owner)

\* an owner with two raw entries merged into one Printing of qty 3
C5_Witness ==
  \E i \in 1..Len(ownersMap) :
    /\ ownersMap[i].cardCount = 2
    /\ Cardinality({ k \in Places : placeOwner(k) = ownersMap[i].name }) = 1
    /\ \E k \in Places : placeOwner(k) = ownersMap[i].name /\ placePrinting(k).qty = 3

\* a Printing without scryfallId that lacks set or collectorNumber
lacksIds(p) == p.scryfallId = "" /\ (p.set = "" \/ p.collectorNumber = "")

\* C6: a Printing that lacks the ids has a null price; whenever a price
\* lookup is in progress its Printing does not lack them, the URL is the one
\* by id when the Printing has a scryfallId and the one by (set,
\* collectorNumber) otherwise, and it is fetched directly.
C6_PriceSkipRule ==
  /\ \A k \in Places : lacksIds(placePrinting(k)) => placePrinting(k).price = <<>>
  /\ (pricePos >= 1 /\ pc \in {"http", "retryWait"}) => caller = "price"
  /\ caller = "price" =>
       LET p == placePrinting(pricePos)
       IN /\ ~lacksIds(p)
          /\ url.via = "direct"
          /\ IF p.scryfallId # ""
               THEN url.api = "scryfall-id" /\ url.id = <<p.scryfallId>>
               ELSE /\ url.api = "scryfall-set-cn"
                    /\ url.set = p.set
                    /\ url.cn = p.collectorNumber
                    /\ p.set # "" /\ p.collectorNumber # ""

\* the pass is over: one Printing was skipped, another one got its price
C6_Witness ==
  /\ pc = "done"
  /\ \E k \in Places : lacksIds(placePrinting(k)) /\ placePrinting(k).price = <<>>
  /\ \E k \in Places : ~lacksIds(placePrinting(k)) /\ placePrinting(k).price # <<>>

\* C7: the step on which a price lookup fails changes no Printing, leaves the
\* price of its Printing null, and hands control back to the price loop at
\* the next Printing; the run ends only after the loop went past the last
\* Printing.
C7_PriceFailureContained ==
  /\ [][ (caller = "price" /\ logged' = "price")
           => /\ cardsMap' = cardsMap
              /\ placePrinting(pricePos).price = <<>>
              /\ pc' = "price"
              /\ pricePos' = pricePos + 1 ]_vars
  /\ [](pc = "done" => pricePos = Len(positions(cardsMap)) + 1)

\* a price lookup has just failed and a Printing is still to be visited
C7_Witness ==
  /\ logged = "price"
  /\ pc = "price"
  /\ pricePos >= 2
  /\ pricePos <= Len(positions(cardsMap))
  /\ placePrinting(pricePos - 1).price = <<>>

\* C8 as stated: when the fetch of a page of a collection fails, the entries
\* of the pages already fetched are still contributed: they are merged, or
\* kept for the pages to come.
C8_PageGranularity ==
  [][ (caller = "coll" /\ logged' = "fetch")
        => \/ allCards' = allCards
           \/ rawLog' = rawLog \o tagged(owner, allCards) ]_vars

\* C8 amended: when the fetch of a page of a collection fails, the error
\* leaves fetchCollection and is caught by the per-URL catch of main: the
\* entries of the pages already fetched are dropped, the aggregate is left
\* as it was and main goes on with the next URL.
C8_UrlGranularity ==
  [][ (caller = "coll" /\ logged' = "fetch")
        => /\ pc' = "url"
           /\ allCards' = <<>>
           /\ aggregate' = aggregate ]_vars

\* page 2 of a collection has just failed after page 1 delivered named
\* items: nothing of the collection was merged
C8_Witness ==
  /\ logged = "fetch"
  /\ pc = "url"
  /\ collLog.requested = <<1, 2>>
  /\ collLog.named > 0
  /\ rawLog = <<>>

\* the totalPages fetchCollection goes by, once page 1 is answered
firstPageTotal == IF collLog.first = 0 THEN 1 ELSE collLog.first

\* C9: the pages of a collection are requested in the order 1, 2, ...; once
\* page 1 is answered no page beyond the totalPages it reported (1 when
\* absent or zero) is requested; one 300ms sleep lies between two page
\* requests and none follows the last; and a collection that returns has
\* requested exactly those pages and returns one entry per item with a card
\* name.
C9_Pagination ==
  collLog.requested # <<>> =>
    /\ \A i \in 1..Len(collLog.requested) : collLog.requested[i] = i
    /\ collLog.answered >= 1 => Len(collLog.requested) <= firstPageTotal
    /\ collLog.sleeps =
         IF pc = "pageWait" THEN Len(collLog.requested) ELSE Len(collLog.requested) - 1
    /\ pc = "pageWait" => timer = PageDelay /\ inFlight = 0
    /\ collLog.returned # <<>> =>
         /\ Len(collLog.requested) = firstPageTotal
         /\ collLog.answered = firstPageTotal
         /\ collLog.sleeps = firstPageTotal - 1
         /\ collLog.returned[1] = collLog.named

\* a collection of two pages has returned the two named items of its pages
C9_Witness ==
  /\ collLog.returned = <<2>>
  /\ collLog.first = 2
  /\ collLog.requested = <<1, 2>>
  /\ collLog.sleeps = 1
  /\ collLog.named = 2

\* C10: at most one request is in flight, a request is in flight only while
\* httpGet awaits its response, and none is while a timer is pending.
C10_OneInFlight ==
  /\ inFlight \in {0, 1}
  /\ inFlight = 1 <=> pc = "http"
  /\ pc \in {"retryWait", "pageWait", "urlWait", "priceWait"} => inFlight = 0

\* the retry of a price lookup is in flight
C10_Witness ==
  /\ pc = "http"
  /\ caller = "price"
  /\ retries < DefaultRetries
  /\ inFlight = 1
  /\ rawLog # <<>>

\* the statuses of the responses a httpGet called on its own got; 0 stands
\* for a transport error
resultStatuses == [i \in 1..Len(result[1].responses) |-> result[1].responses[i].status]

\* a status that ends httpGet at once: neither 200 nor retryable
FailsAtOnce(status) == status # 200 /\ ~Retryable(status)

\* C11: a response that is neither 200 nor retryable, and a transport error,
\* end httpGet on the spot, whatever budget remains and also on a retry
\* attempt: it is the last event of the call, no request and no wait follows
\* it, and the call fails with the HTTP-status error carrying that status, or
\* with the transport error.
C11_NoRetryOnOtherFailures ==
  result # <<>> =>
    LET r  == result[1]
        rs == resultStatuses
    IN /\ \A i \in 1..Len(rs) : FailsAtOnce(rs[i]) => i = Len(rs)
       /\ (rs[Len(rs)] # 0 /\ FailsAtOnce(rs[Len(rs)]))
            => r.kind = "HttpStatus" /\ r.status = rs[Len(rs)]
       /\ rs[Len(rs)] = 0 => r.kind = "Transport"
       /\ FailsAtOnce(rs[Len(rs)])
            => /\ r.issued = Len(rs)
               /\ pc = "done" /\ timer = 0 /\ inFlight = 0

\* a transport error on the first retry, with budget left, has ended the call
C11_Witness ==
  /\ result # <<>>
  /\ result[1].budget = 2
  /\ resultStatuses = <<503, 0>>
  /\ result[1].kind = "Transport"
  /\ result[1].issued = 2

\* C12: once the configuration is read, the run always ends by writing the
\* snapshot, whatever URLs are unparseable and whatever fetches and price
\* lookups fail; main ends abnormally only on the step that reads the
\* configuration.
C12_AlwaysWrites ==
  /\ (pc = "src") ~> (pc = "done" /\ written = 1)
  /\ [][pc' = "fatal" => pc = "start"]_vars

\* the snapshot is written although an owner got no card and a price lookup
\* of a Printing that has ids gave no price
C12_Witness ==
  /\ pc = "done"
  /\ written = 1
  /\ \E i \in 1..Len(ownersMap) : ownersMap[i].cardCount = 0
  /\ \E k \in Places : ~lacksIds(placePrinting(k)) /\ placePrinting(k).price = <<>>

\* C13: data/cards.json is written at most once, by the step that ends the
\* run, and only when no URL is being processed any more, every printing has
\* been visited by the price pass and no request or timer is pending; a run
\* that ended abnormally has written nothing.
C13_WrittenOnceAtEnd ==
  /\ written \in {0, 1}
  /\ written = 1 <=> pc = "done"
  /\ pc = "fatal" => written = 0
  /\ pricePos >= 1 => /\ pc \in {"price", "http", "retryWait", "priceWait", "done"}
                      /\ caller \in {"none", "price"}
  /\ written = 1 => /\ pricePos = Len(positions(cardsMap)) + 1
                    /\ caller = "none" /\ inFlight = 0 /\ timer = 0 /\ price = <<>>

\* the snapshot of two owners is written, with a price in it
C13_Witness ==
  /\ written = 1
  /\ Len(ownersMap) = 2
  /\ \E k \in Places : placePrinting(k).price # <<>>

\* the raw entries whose lowercased name is key, by their place in rawLog
entriesOfKey(key) == { j \in 1..Len(rawLog) : toLowerCase(rawLog[j].card.name) = key }

\* C14: cardsMap has one aggregate per lowercased name of a raw entry, and
\* the display name of an aggregate is the name, in its original case, of
\* the first raw entry with that lowercased name, whatever the case of the
\* names of the entries merged later and whoever owns them.
C14_FirstNameWins ==
  /\ \A i, j \in 1..Len(cardsMap) : cardsMap[i].key = cardsMap[j].key => i = j
  /\ \A j \in 1..Len(rawLog) :
       \E i \in 1..Len(cardsMap) : cardsMap[i].key = toLowerCase(rawLog[j].card.name)
  /\ \A i \in 1..Len(cardsMap) :
       /\ entriesOfKey(cardsMap[i].key) # {}
       /\ LET first == CHOOSE j \in entriesOfKey(cardsMap[i].key) :
                         \A k \in entriesOfKey(cardsMap[i].key) : j <= k
          IN cardsMap[i].name = rawLog[first].card.name

\* "bo" came first and "Bo" of another owner was merged under it later
C14_Witness ==
  \E i \in 1..Len(cardsMap) :
    /\ cardsMap[i].name = <<"b", "o">>
    /\ Len(cardsMap[i].owners) = 2
    /\ \E j \in 2..Len(rawLog) :
         /\ rawLog[j].card.name = <<"B", "o">>
         /\ rawLog[j].owner # rawLog[1].owner

\* a segment /<word>/<token> starts at position i of u
startsSegment(u, i, word) ==
  /\ i + 3 <= Len(u)
  /\ u[i] = "/" /\ u[i + 1] = word /\ u[i + 2] = "/"
  /\ isToken(u[i + 3])

hasSegment(u, word) == \E i \in 1..Len(u) : startsSegment(u, i, word)

\* tok is the token of the segment that starts at position i of u: the
\* token symbols after the second slash, as far as they go
tokenOfSegment(u, i, tok) ==
  /\ tok # <<>>
  /\ i + 2 + Len(tok) <= Len(u)
  /\ SubSeq(u, i + 3, i + 2 + Len(tok)) = tok
  /\ \A k \in 1..Len(tok) : isToken(tok[k])
  /\ i + 3 + Len(tok) <= Len(u) => ~isToken(u[i + 3 + Len(tok)])

\* ref refers to the first segment /<word>/<token> of u
firstSegment(u, word, ref) ==
  \E i \in 1..Len(u) :
    /\ startsSegment(u, i, word)
    /\ \A j \in 1..(i - 1) : ~startsSegment(u, j, word)
    /\ tokenOfSegment(u, i, ref.id)

\* C15: parseMoxfieldUrl returns a deck reference, with the token of the
\* first /decks/<token> segment, for every url that has such a segment, also
\* when the url has a /collection/<token> segment; a collection reference
\* only for a url without /decks/<token>; null when the url has neither; and
\* the url rebuilt from a reference is classified as that reference.
C15_DeckFirst ==
  parsedRefs # <<>> =>
    LET ref == parsedRefs[1]
    IN /\ hasSegment(srcUrl, "decks")
            => ref.type = "deck" /\ firstSegment(srcUrl, "decks", ref)
       /\ ref.type = "collection"
            => ~hasSegment(srcUrl, "decks") /\ firstSegment(srcUrl, "collection", ref)
       /\ (~hasSegment(srcUrl, "decks") /\ hasSegment(srcUrl, "collection"))
            => ref.type = "collection"
       /\ (~hasSegment(srcUrl, "decks") /\ ~hasSegment(srcUrl, "collection"))
            => ref = NoRef
       /\ Len(parsedRefs) = 2 => parsedRefs[2] = ref

\* a url with a collection segment before its deck segment is a deck, and so
\* is the url rebuilt from the reference
C15_Witness ==
  /\ srcUrl = <<"/", "collection", "/", "d", "/", "decks", "/", "d">>
  /\ Len(parsedRefs) = 2
  /\ parsedRefs[1] = [type |-> "deck", id |-> <<"d">>]
  /\ parsedRefs[2] = parsedRefs[1]

\* a Printing after the one being priced will be queried too
laterQuery ==
  \E k \in (pricePos + 1)..Len(positions(cardsMap)) : ~lacksIds(placePrinting(k))

\* C16: when the query of a price lookup ends, with a price, without a usable
\* price or with an error, and a later Printing is still to be queried, the
\* 100ms pause begins: no next price query is issued before it.
C16_PauseAfterEveryQuery ==
  [][ (caller = "price" /\ caller' = "none" /\ laterQuery)
        => (pc' = "priceWait" /\ timer' = PriceDelay) ]_vars

\* this step ends the processing of a URL: it could not be classified, or
\* its fetch has returned or failed
endsUrl ==
  \/ urlCount' = urlCount + 1 /\ pc' # "http"
  \/ /\ pc = "http" /\ caller \in {"deck", "coll"}
     /\ pc' \notin {"http", "retryWait", "pageWait"}

\* C17: the step that ends the processing of a URL, classified or not,
\* fetched or failed, begins the pause of one second: the next URL is not
\* taken before it.
C17_PauseAfterEveryUrl ==
  [][ endsUrl => (pc' = "urlWait" /\ timer' = UrlDelay) ]_vars

\* the status httpGet is about to retry on
retriedStatus == reqLog[Len(reqLog)].status

\* C18: while httpGet waits to retry, the timer set is 5000ms after a 429
\* and 2000ms after a status >= 500 and no request is in flight; the retry
\* request is issued by the step that ends that wait and by no other, for
\* the same url and with the remaining budget one less; and every call made
\* by fetchViaCF or by fetchPrice starts with a budget of 2.
C18_RetryWaits ==
  /\ [](pc = "retryWait" =>
          /\ retriedStatus = 429 \/ retriedStatus >= 500
          /\ timer = (IF retriedStatus = 429 THEN 5000 ELSE 2000)
          /\ inFlight = 0
          /\ retries > 0)
  /\ [][ /\ pc = "retryWait"
            => /\ pc' = "http" /\ inFlight' = 1
               /\ retries' = retries - 1
               /\ issued' = issued + 1
               /\ url' = url /\ caller' = caller
         /\ (pc # "retryWait" /\ issued' > issued)
            => /\ issued = 0 /\ issued' = 1
               /\ caller' \in {"deck", "coll", "price"}
               /\ retries' = 2
               /\ url'.via = (IF caller' = "price" THEN "direct" ELSE "worker")
       ]_vars

\* a price lookup waits 5 seconds for its second retry
C18_Witness ==
  /\ pc = "retryWait"
  /\ caller = "price"
  /\ timer = 5000
  /\ retries = 1
  /\ issued = 2

\* a || b || dflt on the strings of the nested object and of the entry
nestedThenTop(a, b, dflt) == IF a # "" THEN a ELSE IF b # "" THEN b ELSE dflt

\* the finishes list of an entry: the nested one, else the entry's own,
\* else the empty list
finishesOf(e) ==
  IF e.card # <<>> /\ e.card[1].finishes # <<>> THEN e.card[1].finishes[1]
  ELSE IF e.top.finishes # <<>> THEN e.top.finishes[1]
  ELSE <<>>

\* C19 as stated: every printing field of the card of a deck entry is the
\* nested one, else the sibling field of the entry, else the default, and
\* isFoil tells whether finishes contains "foil".
C19_TopLevelFallback ==
  deckOut # <<>> =>
    LET e == deckEntry[1]
        c == IF e.card # <<>> THEN e.card[1] ELSE NoDetail
        o == deckOut[1]
    IN /\ o.set = nestedThenTop(c.set, e.top.set, "unknown")
       /\ o.setName = nestedThenTop(c.setName, e.top.setName, "")
       /\ o.collectorNumber = nestedThenTop(c.cn, e.top.cn, "")
       /\ o.scryfallId = nestedThenTop(nestedThenTop(c.scryfall_id, c.scryfallId, ""),
                                       nestedThenTop(e.top.scryfall_id, e.top.scryfallId, ""), "")
       /\ o.finishes = finishesOf(e)
       /\ o.isFoil <=> \E i \in 1..Len(o.finishes) : o.finishes[i] = "foil"

\* C19 amended: of the printing fields of the card of a deck entry only
\* finishes falls back from the nested object to the sibling field of the
\* entry; set, setName, collectorNumber and scryfallId are taken from the
\* nested object alone and get their default when it lacks them, whatever
\* the entry has at its top level; isFoil tells whether finishes contains
\* "foil".
C19_OnlyFinishesFallsBack ==
  deckOut # <<>> =>
    LET e == deckEntry[1]
        c == IF e.card # <<>> THEN e.card[1] ELSE NoDetail
        o == deckOut[1]
    IN /\ o.set = nestedThenTop(c.set, "", "unknown")
       /\ o.setName = c.setName
       /\ o.collectorNumber = c.cn
       /\ o.scryfallId = nestedThenTop(c.scryfall_id, c.scryfallId, "")
       /\ o.finishes = finishesOf(e)
       /\ o.isFoil <=> \E i \in 1..Len(o.finishes) : o.finishes[i] = "foil"

\* the nested object lacks set and finishes, the entry has both at its top
\* level: the set is the default, the finishes are the entry's
C19_Witness ==
  /\ deckOut # <<>>
  /\ deckEntry[1].card # <<>>
  /\ deckEntry[1].card[1].set = "" /\ deckEntry[1].card[1].finishes = <<>>
  /\ deckEntry[1].top.set = "mh3" /\ deckEntry[1].top.finishes = << <<"foil">> >>
  /\ deckOut[1].set = "unknown"
  /\ deckOut[1].isFoil

\* the record of owner o in ownersMap
recordOf(om, o) == om[CHOOSE i \in 1..Len(om) : om[i].name = o]

\* C20: ownersMap never holds two records of one name; the step that reaches
\* a source creates the record of its owner, with cardCount 0, when the
\* owner has none and leaves ownersMap alone when it has one; no other step
\* adds a record; no step removes a record, changes a name or a phone or
\* lowers a cardCount; so while the URLs of a source are processed, and
\* whether they fail or not, its owner has its one record.
C20_OneRecordPerOwner ==
  /\ [](\A i, j \in 1..Len(ownersMap) : ownersMap[i].name = ownersMap[j].name => i = j)
  /\ []((pc = "url" \/ caller \in {"deck", "coll"} \/ pc \in {"urlWait", "pageWait"})
          => hasOwner(ownersMap, owner))
  /\ [][ /\ srcCount' = srcCount + 1
            => IF hasOwner(ownersMap, owner')
                 THEN ownersMap' = ownersMap
                 ELSE /\ Len(ownersMap') = Len(ownersMap) + 1
                      /\ SubSeq(ownersMap', 1, Len(ownersMap)) = ownersMap
                      /\ recordOf(ownersMap', owner').cardCount = 0
                      /\ recordOf(ownersMap', owner').phone = phoneOf(owner')
         /\ srcCount' # srcCount + 1 => Len(ownersMap') = Len(ownersMap)
         /\ \A i \in 1..Len(ownersMap) :
              /\ ownersMap'[i].name = ownersMap[i].name
              /\ ownersMap'[i].phone = ownersMap[i].phone
              /\ ownersMap'[i].cardCount >= ownersMap[i].cardCount
       ]_vars

\* the second source of an owner is reached: the record of the first is
\* reused, with its phone and the cards counted so far
C20_Witness ==
  /\ srcCount = 2
  /\ pc = "url"
  /\ Len(ownersMap) = 1
  /\ ownersMap[1].name = owner
  /\ ownersMap[1].phone = "+54"
  /\ ownersMap[1].cardCount >= 1

\* the first raw entry that belongs to the printing at place k
creatorOf(k) ==
  rawLog[CHOOSE i \in 1..Len(rawLog) :
           placeOf(k, rawLog[i]) /\ \A j \in 1..(i - 1) : ~placeOf(k, rawLog[j])]

\* the raw entry this step merges, when it merges exactly one
mergedEntry == rawLog'[Len(rawLog')]

\* C21: every Printing keeps the setName, collectorNumber and scryfallId of
\* the first raw entry of its group, and a null price as long as the
\* aggregation lasts, whatever the entries merged into it later carry; and a
\* step that merges one raw entry into an existing Printing changes the qty
\* of that Printing by the qty of the entry and nothing else in cardsMap,
\* and no name or phone of an owner record.
C21_MergeTouchesQtyOnly ==
  /\ [](\A k \in Places :
          /\ placePrinting(k).setName = creatorOf(k).card.setName
          /\ placePrinting(k).collectorNumber = creatorOf(k).card.collectorNumber
          /\ placePrinting(k).scryfallId = creatorOf(k).card.scryfallId
          /\ pricePos = 0 => placePrinting(k).price = <<>>)
  /\ [][ (/\ Len(rawLog') = Len(rawLog) + 1
          /\ \E k \in Places : placeOf(k, mergedEntry))
         => /\ \E k \in Places :
                 /\ placeOf(k, mergedEntry)
                 /\ cardsMap' =
                      [cardsMap EXCEPT
                         ![positions(cardsMap)[k].ci]
                            .owners[positions(cardsMap)[k].oi]
                            .printings[positions(cardsMap)[k].pi]
                            .qty = @ + mergedEntry.card.qty]
            /\ Len(ownersMap') = Len(ownersMap)
            /\ \A i \in 1..Len(ownersMap) :
                 /\ ownersMap'[i].name = ownersMap[i].name
                 /\ ownersMap'[i].phone = ownersMap[i].phone
                 /\ ownersMap[i].name # mergedEntry.owner => ownersMap'[i] = ownersMap[i]
       ]_vars

\* an entry with another collectorNumber and another scryfallId was merged
\* into a Printing, which kept those of the entry that created it
C21_Witness ==
  \E i, j \in 1..Len(rawLog) : \E k \in Places :
    /\ i < j
    /\ sameGroup(rawLog[i], rawLog[j])
    /\ rawLog[i].card.scryfallId # rawLog[j].card.scryfallId
    /\ rawLog[i].card.collectorNumber # rawLog[j].card.collectorNumber
    /\ placeOf(k, rawLog[i])
    /\ creatorOf(k) = rawLog[i]
    /\ placePrinting(k).scryfallId = rawLog[i].card.scryfallId
    /\ placePrinting(k).collectorNumber = rawLog[i].card.collectorNumber
    /\ placePrinting(k).qty = rawLog[i].card.qty + rawLog[j].card.qty

====
